---- MODULE Spec2Model ----
(***************************************************************************)
(* A model of the static file server filter of FucAttaCk/GateWay:          *)
(*   util.SanitizedPathJoin            (src/util/path.go)                  *)
(*   FileServer.handle, calculateEtag, fileHidden, mapDirOpenError,        *)
(*   transformHidePaths                (src/fileserver/fileserver.go)      *)
(*                                                                         *)
(* Strings are sequences of one-character strings, so that cleaning,       *)
(* splitting, prefix tests and glob matching are computed character by     *)
(* character as the Go code and its standard library compute them.  The    *)
(* path functions are those of a build whose filepath.Separator is "/"     *)
(* (the linux and darwin targets of src/Makefile); the windows target is   *)
(* modelled for the request-path guard at the head of handle only.         *)
(***************************************************************************)
EXTENDS Integers, Sequences, FiniteSets, TLC

VARIABLES
    goos,         \* runtime.GOOS of the build
    indexNames,   \* Spec.IndexNames
    hideCfg,      \* Spec.Hide
    tree,         \* the file system: node -> "dir" | "file" | "none"
    fault,        \* an error the file system injects at one node
    pc,           \* position of handle in the current request
    method,       \* ctx.Request().Method()
    p,            \* r.Path()
    filesToHide,  \* local filesToHide of handle
    filename,     \* local filename of handle
    info,         \* local info of handle (fs.FileInfo)
    idx,          \* position of the index loop in IndexNames
    chosen,       \* position in IndexNames of the index file taken, 0 if none
    file,         \* local file of handle: "nil" | "open" | "closed"
    deferred,     \* whether defer file.Close() has been registered
    openCalls,    \* names passed to fileSystem.Open during the request
    failErr,      \* the error stat or open returned before mapDirOpenError
    result,       \* the result string handle returns
    status,       \* w.SetStatusCode value, 0 if never set
    allow,        \* response header Allow
    etag,         \* response header Etag
    sj,           \* one call of SanitizedPathJoin
    fh,           \* one call of fileHidden
    et            \* ETags of one file, before and after a change

vars == <<goos, indexNames, hideCfg, tree, fault, pc, method, p, filesToHide,
          filename, info, idx, chosen, file, deferred, openCalls, failErr,
          result, status, allow, etag, sj, fh, et>>

handleVars == <<goos, indexNames, hideCfg, tree, fault, pc, method, p,
                filesToHide, filename, info, idx, chosen, file, deferred,
                openCalls, failErr, result, status, allow, etag>>

----------------------------------------------------------------------------
(* Strings *)

separator == "/"

HasPrefix(s, prefix) ==
    /\ Len(prefix) <= Len(s)
    /\ SubSeq(s, 1, Len(prefix)) = prefix

HasSuffix(s, suffix) ==
    /\ Len(suffix) <= Len(s)
    /\ SubSeq(s, Len(s) - Len(suffix) + 1, Len(s)) = suffix

TrimPrefix(s, prefix) ==
    IF HasPrefix(s, prefix) THEN SubSeq(s, Len(prefix) + 1, Len(s)) ELSE s

Contains(s, c) == \E i \in 1..Len(s) : s[i] = c

RECURSIVE TrimRight(_, _)
TrimRight(s, cutset) ==
    IF s # <<>> /\ s[Len(s)] \in cutset
    THEN TrimRight(SubSeq(s, 1, Len(s) - 1), cutset)
    ELSE s

RECURSIVE Split(_, _)
Split(s, sep) ==
    IF s = <<>> THEN << <<>> >>
    ELSE LET rest == Split(Tail(s), sep)
         IN  IF Head(s) = sep
             THEN << <<>> >> \o rest
             ELSE << <<Head(s)>> \o Head(rest) >> \o Tail(rest)

RECURSIVE JoinStr(_, _)
JoinStr(parts, sep) ==
    IF parts = <<>> THEN <<>>
    ELSE IF Len(parts) = 1 THEN parts[1]
    ELSE parts[1] \o <<sep>> \o JoinStr(Tail(parts), sep)

----------------------------------------------------------------------------
(* path/filepath *)

DotDot == <<".", ".">>

RECURSIVE CleanComps(_, _, _)
CleanComps(parts, out, rooted) ==
    IF parts = <<>> THEN out
    ELSE LET c    == Head(parts)
             rest == Tail(parts)
         IN  IF c = <<>> \/ c = <<".">>
             THEN CleanComps(rest, out, rooted)
             ELSE IF c = DotDot
             THEN IF out # <<>> /\ out[Len(out)] # DotDot
                  THEN CleanComps(rest, SubSeq(out, 1, Len(out) - 1), rooted)
                  ELSE IF rooted
                  THEN CleanComps(rest, out, rooted)
                  ELSE CleanComps(rest, Append(out, c), rooted)
             ELSE CleanComps(rest, Append(out, c), rooted)

Clean(path) ==
    IF path = <<>> THEN <<".">>
    ELSE LET rooted == path[1] = separator
             body   == JoinStr(CleanComps(Split(path, separator), <<>>, rooted),
                               separator)
         IN  IF rooted THEN <<separator>> \o body
             ELSE IF body = <<>> THEN <<".">>
             ELSE body

Join(a, b) ==
    IF a = <<>> /\ b = <<>> THEN <<>>
    ELSE IF a = <<>> THEN Clean(b)
    ELSE IF b = <<>> THEN Clean(a)
    ELSE Clean(a \o <<separator>> \o b)

----------------------------------------------------------------------------
(* util.SanitizedPathJoin *)

SanitizedPathJoinNoRoot(root, reqPath) ==
    LET r    == IF root = <<>> THEN <<".">> ELSE root
        path == Join(r, Clean(reqPath))
    IN  IF HasSuffix(reqPath, <<"/">>) /\ Len(reqPath) > 1
        THEN path \o <<separator>>
        ELSE path

SanitizedPathJoin(root, reqPath) ==
    LET r    == IF root = <<>> THEN <<".">> ELSE root
        path == Join(r, Clean(<<"/">> \o reqPath))
    IN  IF HasSuffix(reqPath, <<"/">>) /\ Len(reqPath) > 1
        THEN path \o <<separator>>
        ELSE path

----------------------------------------------------------------------------
(* path.Base, filepath.Abs, filepath.Match, strconv.FormatInt *)

\* path.Base: the last element of a slash-separated path, trailing slashes
\* removed first; "." for the empty path, "/" for a path of slashes only.
Base(path) ==
    IF path = <<>> THEN <<".">>
    ELSE LET t == TrimRight(path, {"/"})
         IN  IF t = <<>> THEN <<"/">>
             ELSE LET parts == Split(t, "/") IN parts[Len(parts)]

\* The working directory filepath.Abs joins a relative path onto.
Cwd == <<"/", "w">>

\* filepath.Abs: (path, ok); ok is FALSE when the working directory cannot
\* be read, and the caller then keeps the path it had.
Abs(path, cwdOk) ==
    IF path # <<>> /\ path[1] = separator THEN [path |-> Clean(path), ok |-> TRUE]
    ELSE IF cwdOk THEN [path |-> Join(Cwd, path), ok |-> TRUE]
    ELSE [path |-> <<>>, ok |-> FALSE]

\* filepath.Match for patterns of literals, "*" and "?": neither wildcard
\* matches the separator.
RECURSIVE Match(_, _)
Match(pattern, name) ==
    IF pattern = <<>> THEN name = <<>>
    ELSE IF Head(pattern) = "*"
    THEN \/ Match(Tail(pattern), name)
         \/ /\ name # <<>>
            /\ Head(name) # separator
            /\ Match(pattern, Tail(name))
    ELSE IF Head(pattern) = "?"
    THEN /\ name # <<>>
         /\ Head(name) # separator
         /\ Match(Tail(pattern), Tail(name))
    ELSE /\ name # <<>>
         /\ Head(name) = Head(pattern)
         /\ Match(Tail(pattern), Tail(name))

Digits == <<"0", "1", "2", "3", "4", "5", "6", "7", "8", "9",
            "a", "b", "c", "d", "e", "f", "g", "h", "i", "j",
            "k", "l", "m", "n", "o", "p", "q", "r", "s", "t",
            "u", "v", "w", "x", "y", "z">>

RECURSIVE FormatNat(_, _)
FormatNat(n, base) ==
    IF n < base THEN <<Digits[n + 1]>>
    ELSE FormatNat(n \div base, base) \o <<Digits[(n % base) + 1]>>

FormatInt(n, base) ==
    IF n < 0 THEN <<"-">> \o FormatNat(-n, base) ELSE FormatNat(n, base)

----------------------------------------------------------------------------
(* calculateEtag *)

EtagBase == 36

calculateEtagModTimeOnly(d) ==
    <<"\"">> \o FormatInt(d.modTime, EtagBase) \o <<"\"">>

calculateEtag(d) ==
    LET t == FormatInt(d.modTime, EtagBase)
        s == FormatInt(d.size, EtagBase)
    IN  <<"\"">> \o t \o s \o <<"\"">>

----------------------------------------------------------------------------
(* fileHidden, transformHidePaths *)

\* One pattern of the hide list against the canonical filename: the body of
\* the loop of fileHidden.
hiddenByPrefixOnly(fname, h) ==
    \/ /\ ~Contains(h, separator)
       /\ \E c \in 1..Len(Split(fname, separator)) :
              HasPrefix(Split(fname, separator)[c], h)
    \/ /\ Contains(h, separator)
       /\ HasPrefix(fname, h)
    \/ Match(h, fname)

hiddenBy(fname, h) ==
    \/ /\ ~Contains(h, separator)
       /\ LET components == Split(fname, separator)
          IN  \E c \in 1..Len(components) : Match(h, components[c])
    \/ /\ Contains(h, separator)
       /\ HasPrefix(fname, h)
       /\ HasPrefix(TrimPrefix(fname, h), <<separator>>)
    \/ Match(h, fname)

\* The filename all comparisons of fileHidden use.
Canonical(fname, cwdOk) ==
    LET abs == Abs(fname, cwdOk)
    IN  IF abs.ok THEN abs.path ELSE fname

fileHidden(fname, hide, cwdOk) ==
    /\ Len(hide) # 0
    /\ \E i \in 1..Len(hide) : hiddenBy(Canonical(fname, cwdOk), hide[i])

\* util.Replacer.ReplaceAll: placeholders are replaced by their values, or by
\* empty when they have none; a string that holds no placeholder, as every
\* configured string here, is returned as it is.
ReplaceAll(s, empty) == s

transformHidePaths(hide, cwdOk) ==
    [i \in 1..Len(hide) |->
        LET h == ReplaceAll(hide[i], <<>>)
        IN  IF Contains(h, separator) /\ Abs(h, cwdOk).ok
            THEN Abs(h, cwdOk).path
            ELSE h]

----------------------------------------------------------------------------
(* The file system behind Spec.fileSystem (osFS: os.Stat, os.Open) *)

NodeRoot == <<"/">>
NodeS    == <<"/", "s">>
NodeF    == <<"/", "s", "/", "f">>
NodeD    == <<"/", "s", "/", "d">>
NodeDI   == <<"/", "s", "/", "d", "/", "i">>
NodeDJ   == <<"/", "s", "/", "d", "/", "j">>
Nodes    == {NodeS, NodeF, NodeD, NodeDI, NodeDJ}

\* Error kinds, as errors.Is / os.IsNotExist / os.IsPermission tell them apart:
\* "nil", "notexist" (fs.ErrNotExist), "perm" (fs.ErrPermission),
\* "invalid" (fs.ErrInvalid) and "other" (ENOTDIR, EIO, EMFILE, ...).
ErrNil      == "nil"
ErrNotExist == "notexist"
ErrPerm     == "perm"
ErrInvalid  == "invalid"
ErrOther    == "other"

NoFault == [node |-> <<>>, op |-> "none", err |-> ErrNil]

KindOf(node) ==
    IF node = NodeRoot THEN "dir"
    ELSE IF node \in DOMAIN tree THEN tree[node]
    ELSE "none"

\* The non-empty components of a path.
Components(path) == SelectSeq(Split(path, separator), LAMBDA c : c # <<>>)

NodeOf(comps, k) == <<separator>> \o JoinStr(SubSeq(comps, 1, k), separator)

\* Path resolution by the operating system, component by component.
RECURSIVE Resolve(_, _)
Resolve(comps, k) ==
    IF k > Len(comps) THEN ErrNil
    ELSE LET node == NodeOf(comps, k)
         IN  IF fault.op = "stat" /\ fault.node = node THEN fault.err
             ELSE IF KindOf(node) = "none" THEN ErrNotExist
             ELSE IF k < Len(comps) /\ KindOf(node) # "dir" THEN ErrOther
             ELSE Resolve(comps, k + 1)

\* fs.Stat(fsrv.spec.fileSystem, name) for an absolute name: the FileInfo, or
\* the error.  A name with a trailing separator must name a directory.
Stat(name) ==
    LET node  == Clean(name)
        comps == Components(node)
        e     == Resolve(comps, 1)
        err   == IF e # ErrNil THEN e
                 ELSE IF Len(name) > 1 /\ HasSuffix(name, <<separator>>)
                         /\ KindOf(node) # "dir"
                 THEN ErrOther
                 ELSE ErrNil
    IN  [err     |-> err,
         isDir   |-> err = ErrNil /\ KindOf(node) = "dir",
         modTime |-> IF err = ErrNil THEN Len(node) ELSE 0,
         size    |-> IF err = ErrNil /\ KindOf(node) = "file" THEN Len(comps) ELSE 0]

NoInfo == [err |-> ErrNil, isDir |-> FALSE, modTime |-> 0, size |-> 0]

\* fsrv.openFile(filename): the error of fileSystem.Open, "nil" on success.
openFile(name) ==
    LET st == Stat(name)
    IN  IF st.err # ErrNil THEN st.err
        ELSE IF fault.op = "open" /\ fault.node = Clean(name) THEN fault.err
        ELSE ErrNil

----------------------------------------------------------------------------
(* mapDirOpenError *)

RECURSIVE mapDirWalk(_, _, _)
mapDirWalk(originalErr, parts, i) ==
    IF i > Len(parts) THEN originalErr
    ELSE IF parts[i] = <<>> THEN mapDirWalk(originalErr, parts, i + 1)
    ELSE LET fi == Stat(JoinStr(SubSeq(parts, 1, i), separator))
         IN  IF fi.err # ErrNil THEN originalErr
             ELSE IF ~fi.isDir THEN ErrNotExist
             ELSE mapDirWalk(originalErr, parts, i + 1)

mapDirOpenError(originalErr, name) ==
    IF originalErr = ErrNotExist \/ originalErr = ErrPerm THEN originalErr
    ELSE mapDirWalk(originalErr, Split(name, separator), 1)

----------------------------------------------------------------------------
(* FileServer.handle *)

resultIllegalADSPath   == "illegalADSPath"
resultIllegalShortName == "illegalShortName"
resultNotFound         == "notFound"
resultErrPermission    == "errPermission"
resultErrHandleFile    == "errHandleFile"
resultMethodNotAllowed == "methodNotAllowed"
resultNone             == ""

StatusBadRequest          == 400
StatusForbidden           == 403
StatusNotFound            == 404
StatusMethodNotAllowed    == 405
StatusInternalServerError == 500

MethodGet  == "GET"
MethodHead == "HEAD"

\* The longest final path component the short-name guard still rejects.
ShortNameMaxLen == 12

\* Spec.Root
Root == NodeS

\* os.Getwd succeeds while requests are handled.
CwdReadable == TRUE

\* The guard at the head of handle: the result it returns, "" if it lets the
\* request through.
obfuscationGuard(os, path) ==
    IF os # "windows" THEN resultNone
    ELSE IF Contains(path, ":") THEN resultIllegalADSPath
    ELSE LET trimmedPath == TrimRight(path, {".", " "})
         IN  IF Len(Base(trimmedPath)) <= ShortNameMaxLen /\ Contains(trimmedPath, "~")
             THEN resultIllegalShortName
             ELSE resultNone

\* One candidate of the index loop: "hidden" and "missing" continue the loop,
\* "found" ends it.
indexCandidateNoHide(indexPath, hide) ==
    IF Stat(indexPath).err # ErrNil THEN "missing" ELSE "found"

indexCandidate(indexPath, hide) ==
    IF fileHidden(indexPath, hide, CwdReadable) THEN "hidden"
    ELSE IF Stat(indexPath).err # ErrNil THEN "missing"
    ELSE "found"

\* The last check before the file is opened.
hiddenAtOpenSkipped(fname, hide) == FALSE

hiddenAtOpen(fname, hide) == fileHidden(fname, hide, CwdReadable)

\* defer file.Close(): the handle once the function returns.
runDeferredOnSuccessOnly(res, registered, f) ==
    IF registered /\ res = resultNone THEN "closed" ELSE f

runDeferred(res, registered, f) ==
    IF registered THEN "closed" ELSE f

\* The status and result of a stat error after mapDirOpenError.
statErrorResult(e) ==
    IF e = ErrNotExist \/ e = ErrInvalid
    THEN [result |-> resultNotFound, status |-> StatusNotFound]
    ELSE IF e = ErrPerm
    THEN [result |-> resultErrPermission, status |-> StatusForbidden]
    ELSE [result |-> resultErrHandleFile, status |-> StatusInternalServerError]

\* The status and result of an open error after mapDirOpenError.
openErrorResult(e) ==
    IF e = ErrNotExist
    THEN [result |-> resultNotFound, status |-> StatusNotFound]
    ELSE IF e = ErrPerm
    THEN [result |-> resultErrPermission, status |-> StatusForbidden]
    ELSE [result |-> resultErrHandleFile, status |-> StatusInternalServerError]

config == <<goos, indexNames, hideCfg, tree, fault>>
pure   == <<sj, fh, et>>

\* A request enters Handle.
Request(m, path) ==
    /\ pc = "idle"
    /\ pc' = "guard"
    /\ method' = m
    /\ p' = path
    /\ filesToHide' = <<>>
    /\ filename' = <<>>
    /\ info' = NoInfo
    /\ idx' = 0
    /\ chosen' = 0
    /\ file' = "nil"
    /\ deferred' = FALSE
    /\ openCalls' = <<>>
    /\ failErr' = ErrNil
    /\ result' = resultNone
    /\ status' = 0
    /\ allow' = ""
    /\ etag' = <<>>
    /\ UNCHANGED <<config, pure>>

\* handle returns res with status code st.
Returns(res, st) ==
    /\ result' = res
    /\ status' = st
    /\ pc' = "return"

Guard ==
    /\ pc = "guard"
    /\ LET res == obfuscationGuard(goos, p)
       IN  IF res # resultNone
           THEN Returns(res, StatusBadRequest)
           ELSE /\ pc' = "sanitize"
                /\ UNCHANGED <<result, status>>
    /\ UNCHANGED <<config, pure, method, p, filesToHide, filename, info, idx,
                   chosen, file, deferred, openCalls, failErr, allow, etag>>

Sanitize ==
    /\ pc = "sanitize"
    /\ filesToHide' = transformHidePaths(hideCfg, CwdReadable)
    /\ filename' = SanitizedPathJoin(ReplaceAll(Root, <<".">>), p)
    /\ pc' = "stat"
    /\ UNCHANGED <<config, pure, method, p, info, idx, chosen, file, deferred,
                   openCalls, failErr, result, status, allow, etag>>

StatFile ==
    /\ pc = "stat"
    /\ LET st == Stat(filename)
       IN  IF st.err # ErrNil
           THEN LET r == statErrorResult(mapDirOpenError(st.err, filename))
                IN  /\ Returns(r.result, r.status)
                    /\ failErr' = st.err
                    /\ UNCHANGED <<info, idx>>
           ELSE /\ info' = st
                /\ idx' = 1
                /\ pc' = IF st.isDir /\ Len(indexNames) > 0 THEN "index" ELSE "isdir"
                /\ UNCHANGED <<result, status, failErr>>
    /\ UNCHANGED <<config, pure, method, p, filesToHide, filename, chosen, file,
                   deferred, openCalls, allow, etag>>

\* One iteration of the loop over IndexNames, or its end.
TryIndex ==
    /\ pc = "index"
    /\ IF idx > Len(indexNames)
       THEN /\ pc' = "isdir"
            /\ UNCHANGED <<idx, info, filename, chosen>>
       ELSE LET indexPage == ReplaceAll(indexNames[idx], <<>>)
                indexPath == SanitizedPathJoin(filename, indexPage)
            IN  IF indexCandidate(indexPath, filesToHide) = "found"
                THEN /\ info' = Stat(indexPath)
                     /\ filename' = indexPath
                     /\ chosen' = idx
                     /\ pc' = "isdir"
                     /\ UNCHANGED idx
                ELSE /\ idx' = idx + 1
                     /\ UNCHANGED <<pc, info, filename, chosen>>
    /\ UNCHANGED <<config, pure, method, p, filesToHide, file, deferred,
                   openCalls, failErr, result, status, allow, etag>>

CheckDir ==
    /\ pc = "isdir"
    /\ IF info.isDir
       THEN Returns(resultNotFound, StatusNotFound)
       ELSE /\ pc' = "hidden"
            /\ UNCHANGED <<result, status>>
    /\ UNCHANGED <<config, pure, method, p, filesToHide, filename, info, idx,
                   chosen, file, deferred, openCalls, failErr, allow, etag>>

CheckHidden ==
    /\ pc = "hidden"
    /\ IF hiddenAtOpen(filename, filesToHide)
       THEN Returns(resultNotFound, StatusNotFound)
       ELSE /\ pc' = "open"
            /\ UNCHANGED <<result, status>>
    /\ UNCHANGED <<config, pure, method, p, filesToHide, filename, info, idx,
                   chosen, file, deferred, openCalls, failErr, allow, etag>>

OpenFile ==
    /\ pc = "open"
    /\ openCalls' = Append(openCalls, filename)
    /\ LET err == openFile(filename)
       IN  IF err # ErrNil
           THEN LET r == openErrorResult(mapDirOpenError(err, filename))
                IN  /\ Returns(r.result, r.status)
                    /\ failErr' = err
                    /\ UNCHANGED <<file, deferred>>
           ELSE /\ file' = "open"
                /\ deferred' = TRUE
                /\ pc' = "method"
                /\ UNCHANGED <<result, status, failErr>>
    /\ UNCHANGED <<config, pure, method, p, filesToHide, filename, info, idx,
                   chosen, allow, etag>>

CheckMethod ==
    /\ pc = "method"
    /\ IF method # MethodGet /\ method # MethodHead
       THEN /\ allow' = "GET, HEAD"
            /\ Returns(resultMethodNotAllowed, StatusMethodNotAllowed)
       ELSE /\ pc' = "serve"
            /\ UNCHANGED <<allow, result, status>>
    /\ UNCHANGED <<config, pure, method, p, filesToHide, filename, info, idx,
                   chosen, file, deferred, openCalls, failErr, etag>>

\* The Etag header is set and the open file handed to http.ServeContent.
Serve ==
    /\ pc = "serve"
    /\ etag' = calculateEtag(info)
    /\ result' = resultNone
    /\ pc' = "return"
    /\ UNCHANGED <<config, pure, method, p, filesToHide, filename, info, idx,
                   chosen, file, deferred, openCalls, failErr, status, allow>>

\* handle returns: the deferred calls run.
Return ==
    /\ pc = "return"
    /\ file' = runDeferred(result, deferred, file)
    /\ pc' = "done"
    /\ UNCHANGED <<config, pure, method, p, filesToHide, filename, info, idx,
                   chosen, deferred, openCalls, failErr, result, status, allow,
                   etag>>

\* Handle passes the result to ctx.CallNextHandler and returns; the request's
\* context is gone.
Finish ==
    /\ pc = "done"
    /\ pc' = "idle"
    /\ method' = MethodGet
    /\ p' = <<>>
    /\ filesToHide' = <<>>
    /\ filename' = <<>>
    /\ info' = NoInfo
    /\ idx' = 0
    /\ chosen' = 0
    /\ file' = "nil"
    /\ deferred' = FALSE
    /\ openCalls' = <<>>
    /\ failErr' = ErrNil
    /\ result' = resultNone
    /\ status' = 0
    /\ allow' = ""
    /\ etag' = <<>>
    /\ UNCHANGED <<config, pure>>

----------------------------------------------------------------------------
(* The server: one configuration, one file system, requests one at a time *)

Methods == {MethodGet, MethodHead, "POST"}

RequestPaths ==
    { <<"/">>,
      <<"/", "f">>,
      <<"/", "f", "/">>,
      <<"/", "f", "/", "x">>,
      <<"/", "x">>,
      <<"/", "d">>,
      <<"/", "d", "/">>,
      <<"/", "d", "/", "i">>,
      <<"/", "d", "/", "j">>,
      <<"/", ".", ".", "/", "f">> }

Trees ==
    { [n \in Nodes |->
          IF n = NodeF THEN "file"
          ELSE IF n = NodeDI THEN di
          ELSE IF n = NodeDJ THEN dj
          ELSE "dir"] : di \in {"none", "file", "dir"}, dj \in {"none", "file"} }

HideLists ==
    { <<>>,
      << <<"i">> >>,
      << NodeDI, <<"f">> >>,
      << NodeD >> }

IndexLists ==
    { <<>>,
      << <<"i">>, <<"j">> >>,
      << <<"j">>, <<"i">> >> }

\* One node may fail: its stat with EACCES or with an error such as EIO, its
\* open with EACCES or with an error such as EMFILE.  os.Stat and os.Open
\* return no error that is fs.ErrInvalid.
Faults ==
    {NoFault}
    \cup { [node |-> n, op |-> "stat", err |-> e] :
              n \in {NodeF, NodeD}, e \in {ErrPerm, ErrOther} }
    \cup { [node |-> n, op |-> "open", err |-> e] :
              n \in {NodeF, NodeDI}, e \in {ErrPerm, ErrOther} }

NoCall == [root |-> <<>>, reqPath |-> <<>>, path |-> <<>>, done |-> FALSE]
NoHide == [fname |-> <<>>, hide |-> <<>>, cwdOk |-> TRUE, hidden |-> FALSE, done |-> FALSE]
NoEtag == [old |-> NoInfo, new |-> NoInfo, oldTag |-> <<>>, newTag |-> <<>>, done |-> FALSE]

PureIdle ==
    /\ sj = NoCall
    /\ fh = NoHide
    /\ et = NoEtag

LocalsIdle ==
    /\ method = MethodGet
    /\ p = <<>>
    /\ filesToHide = <<>>
    /\ filename = <<>>
    /\ info = NoInfo
    /\ idx = 0
    /\ chosen = 0
    /\ file = "nil"
    /\ deferred = FALSE
    /\ openCalls = <<>>
    /\ failErr = ErrNil
    /\ result = resultNone
    /\ status = 0
    /\ allow = ""
    /\ etag = <<>>

Init ==
    /\ goos \in {"linux", "darwin"}
    /\ indexNames \in IndexLists
    /\ hideCfg \in HideLists
    /\ tree \in Trees
    /\ fault \in Faults
    /\ pc = "idle"
    /\ LocalsIdle
    /\ PureIdle

Next ==
    \/ \E m \in Methods, path \in RequestPaths : Request(m, path)
    \/ Guard
    \/ Sanitize
    \/ StatFile
    \/ TryIndex
    \/ CheckDir
    \/ CheckHidden
    \/ OpenFile
    \/ CheckMethod
    \/ Serve
    \/ Return
    \/ Finish

Spec == Init /\ [][Next]_vars

----------------------------------------------------------------------------
(* SanitizedPathJoin on its own: every root and request path within bounds *)

MaxReqLen == 5

\* All strings of at most n characters of alphabet.
Strings(alphabet, n) == UNION { [1..k -> alphabet] : k \in 0..n }

JoinRoots ==
    { <<>>,
      <<".">>,
      <<"/">>,
      <<".", ".">>,
      <<"s">>,
      <<"/", "s">>,
      <<"/", "s", "/">>,
      <<"s", "/", "t">>,
      <<"/", "s", "/", ".", ".", "/", "t">> }

HandleIdle ==
    /\ goos = "linux"
    /\ indexNames = <<>>
    /\ hideCfg = <<>>
    /\ tree = [n \in Nodes |-> IF n = NodeF THEN "file" ELSE "dir"]
    /\ fault = NoFault
    /\ pc = "idle"
    /\ LocalsIdle

InitJoin ==
    /\ HandleIdle
    /\ fh = NoHide
    /\ et = NoEtag
    /\ sj \in { [root |-> r, reqPath |-> q, path |-> <<>>, done |-> FALSE] :
                   r \in JoinRoots, q \in Strings({"/", ".", "a"}, MaxReqLen) }

JoinCall ==
    /\ ~sj.done
    /\ sj' = [sj EXCEPT !.path = SanitizedPathJoin(sj.root, sj.reqPath),
                        !.done = TRUE]
    /\ UNCHANGED <<handleVars, fh, et>>

NextJoin == JoinCall

SpecJoin == InitJoin /\ [][NextJoin]_vars

----------------------------------------------------------------------------
(* fileHidden on its own: every filename and hide pattern within bounds *)

MaxNameLen == 5
MaxPatLen  == 2

HidePatterns == Strings({"/", "a", "*"}, MaxPatLen) \ {<<>>}

InitHidden ==
    /\ HandleIdle
    /\ sj = NoCall
    /\ et = NoEtag
    /\ fh \in { [fname |-> f, hide |-> hl, cwdOk |-> ok, hidden |-> FALSE,
                 done |-> FALSE] :
                   f \in Strings({"/", "a", "b"}, MaxNameLen) \ {<<>>},
                   hl \in {<<>>} \cup { <<h>> : h \in HidePatterns },
                   ok \in BOOLEAN }

HiddenCall ==
    /\ ~fh.done
    /\ fh' = [fh EXCEPT !.hidden = fileHidden(fh.fname, fh.hide, fh.cwdOk),
                        !.done = TRUE]
    /\ UNCHANGED <<handleVars, sj, et>>

NextHidden == HiddenCall

SpecHidden == InitHidden /\ [][NextHidden]_vars

----------------------------------------------------------------------------
(* calculateEtag: a file served, changed, and served again *)

MaxOldModTime == 1
MaxModTime    == 37
MaxSize       == 36

FileInfo(t, s) == [err |-> ErrNil, isDir |-> FALSE, modTime |-> t, size |-> s]

InitEtag ==
    /\ HandleIdle
    /\ sj = NoCall
    /\ fh = NoHide
    /\ et \in { [old |-> FileInfo(t, s), new |-> FileInfo(t, s),
                 oldTag |-> <<>>, newTag |-> <<>>, done |-> FALSE] :
                   t \in 0..MaxOldModTime, s \in 0..MaxSize }

\* The file is written (any size) and its modification time set.
EtagAfterChange(t, s) ==
    /\ ~et.done
    /\ et' = [et EXCEPT !.new = FileInfo(t, s),
                        !.oldTag = calculateEtag(et.old),
                        !.newTag = calculateEtag(FileInfo(t, s)),
                        !.done = TRUE]
    /\ UNCHANGED <<handleVars, sj, fh>>

NextEtag == \E t \in 0..MaxModTime, s \in 0..MaxSize : EtagAfterChange(t, s)

SpecEtag == InitEtag /\ [][NextEtag]_vars

----------------------------------------------------------------------------
(* The guard at the head of handle, on every build target *)

MaxBaseLen == 13

Fill(n) == [i \in 1..n |-> "a"]

GuardDirs ==
    { <<>>,
      <<"/">>,
      <<"/", "a", "/">>,
      <<"/", "~", "/">> }

GuardTails ==
    { <<>>,
      <<".">>,
      <<" ">>,
      <<".", " ">>,
      <<"/">>,
      <<":">> }

GuardPaths ==
    { d \o (IF tilde THEN <<"~">> ELSE <<>>) \o Fill(n) \o t :
          d \in GuardDirs, tilde \in BOOLEAN, n \in 0..MaxBaseLen, t \in GuardTails }

InitGuard ==
    /\ goos \in {"windows", "linux", "darwin"}
    /\ indexNames = <<>>
    /\ hideCfg = <<>>
    /\ tree = [n \in Nodes |-> IF n = NodeF THEN "file" ELSE "dir"]
    /\ fault = NoFault
    /\ pc = "guard"
    /\ method = MethodGet
    /\ p \in GuardPaths
    /\ filesToHide = <<>>
    /\ filename = <<>>
    /\ info = NoInfo
    /\ idx = 0
    /\ chosen = 0
    /\ file = "nil"
    /\ deferred = FALSE
    /\ openCalls = <<>>
    /\ failErr = ErrNil
    /\ result = resultNone
    /\ status = 0
    /\ allow = ""
    /\ etag = <<>>
    /\ PureIdle

NextGuard == Guard

SpecGuard == InitGuard /\ [][NextGuard]_vars

----------------------------------------------------------------------------
(* Properties of SanitizedPathJoin *)

RootOrDot(root) == IF root = <<>> THEN <<".">> ELSE root

IsRooted(path) == path # <<>> /\ path[1] = separator

\* The components a path walks through: "." and the empty component between
\* two separators name no step.
PathElems(path) ==
    SelectSeq(Split(path, separator), LAMBDA c : c # <<>> /\ c # <<".">>)

\* path lies within base: it walks through base first, and from there never
\* steps up.
Within(path, base) ==
    LET b == PathElems(base)
        e == PathElems(path)
    IN  /\ IsRooted(path) = IsRooted(base)
        /\ Len(b) <= Len(e)
        /\ SubSeq(e, 1, Len(b)) = b
        /\ \A i \in (Len(b) + 1)..Len(e) : e[i] # DotDot

\* path is base, or base, a separator and more.
BelowLiterally(path, base) ==
    \/ path = base
    \/ HasPrefix(path, IF HasSuffix(base, <<separator>>)
                       THEN base
                       ELSE base \o <<separator>>)

C2_NoSeparatorAtRoot ==
    sj.done =>
        LET cleaned == Clean(<<"/">> \o sj.reqPath)
            joined  == Join(RootOrDot(sj.root), cleaned)
        IN  IF Len(cleaned) <= 1
            THEN sj.path = joined
            ELSE HasSuffix(sj.path, <<separator>>)
                     <=> HasSuffix(sj.reqPath, <<"/">>)

----------------------------------------------------------------------------
(* Properties of handle *)

\* What the request path resolves to, and the hide list of the request.
ReqFile == SanitizedPathJoin(Root, p)
HideNow == transformHidePaths(hideCfg, CwdReadable)

Started == pc \notin {"idle", "guard"}

IndexPathOf(k) == SanitizedPathJoin(ReqFile, indexNames[k])

\* Candidate k of IndexNames exists and is not hidden.
Usable(k) ==
    /\ ~fileHidden(IndexPathOf(k), HideNow, CwdReadable)
    /\ Stat(IndexPathOf(k)).err = ErrNil

FirstUsable ==
    IF \E k \in 1..Len(indexNames) : Usable(k)
    THEN CHOOSE k \in 1..Len(indexNames) :
             Usable(k) /\ \A j \in 1..(k - 1) : ~Usable(j)
    ELSE 0

ResolvesToDir == Stat(ReqFile).err = ErrNil /\ Stat(ReqFile).isDir
ResolvesToFile == Stat(ReqFile).err = ErrNil /\ ~Stat(ReqFile).isDir

PastIndexLoop == pc \in {"isdir", "hidden", "open", "method", "serve", "return", "done"}

\* C3: a request whose method is neither GET nor HEAD never has
\* fileSystem.Open called, and when its path resolves to an existing,
\* non-hidden regular file it ends methodNotAllowed, 405, Allow: GET, HEAD.
C3_OtherMethodNeverOpens ==
    (Started /\ method # MethodGet /\ method # MethodHead) =>
        /\ openCalls = <<>>
        /\ (pc = "done" /\ ResolvesToFile
                /\ ~fileHidden(ReqFile, HideNow, CwdReadable)) =>
               /\ result = resultMethodNotAllowed
               /\ status = StatusMethodNotAllowed
               /\ allow = "GET, HEAD"

\* Some proper prefix of name, cut at a separator, exists and is no directory.
BelowNonDirectory(name) ==
    LET parts == Split(name, separator)
    IN  \E i \in 1..(Len(parts) - 1) :
            /\ parts[i] # <<>>
            /\ LET fi == Stat(JoinStr(SubSeq(parts, 1, i), separator))
               IN  fi.err = ErrNil /\ ~fi.isDir

\* C4: when stat or open fails with an error that is neither not-found nor
\* permission-denied, the result is notFound (404) exactly when an intermediate
\* segment of the path exists and is not a directory, and errHandleFile (500)
\* in every other case.
C4_NotFoundOnlyBelowNonDirectory ==
    (pc = "done" /\ failErr \notin {ErrNil, ErrNotExist, ErrPerm}) =>
        IF BelowNonDirectory(filename)
        THEN result = resultNotFound /\ status = StatusNotFound
        ELSE result = resultErrHandleFile /\ status = StatusInternalServerError

\* C5: when the request path resolves to a directory, the index file taken is
\* the first name of IndexNames whose joined path is not hidden and exists:
\* while the loop runs no earlier candidate was usable, after it the file name
\* is that candidate's path and nothing else is ever opened, and with no usable
\* candidate the request ends notFound (404).
C5_FirstUsableIndex ==
    /\ (pc = "index") =>
           /\ chosen = 0
           /\ \A k \in 1..Len(indexNames) : k < idx => ~Usable(k)
    /\ (PastIndexLoop /\ ResolvesToDir) =>
           /\ chosen = FirstUsable
           /\ chosen > 0 => filename = IndexPathOf(chosen)
           /\ \A i \in 1..Len(openCalls) :
                  chosen > 0 /\ openCalls[i] = IndexPathOf(chosen)
           /\ (pc = "done" /\ FirstUsable = 0) =>
                  result = resultNotFound /\ status = StatusNotFound
    /\ (PastIndexLoop /\ ~ResolvesToDir) => chosen = 0

\* C5 witness: the first index name exists but is hidden, and the second one
\* has been served.
C5_Witness ==
    /\ pc = "done"
    /\ ResolvesToDir
    /\ Len(indexNames) = 2
    /\ Stat(IndexPathOf(1)).err = ErrNil
    /\ fileHidden(IndexPathOf(1), HideNow, CwdReadable)
    /\ chosen = 2
    /\ openCalls = <<IndexPathOf(2)>>
    /\ result = resultNone
    /\ etag # <<>>

\* C8: every handle opened is closed when handle has returned, on the
\* methodNotAllowed return as on the return after the hand-off to
\* ServeContent: no request ends with a handle still open.
C8_OpenedHandleClosedOnReturn ==
    /\ pc \in {"done", "idle"} => file # "open"
    /\ (pc = "done" /\ deferred) => file = "closed"
    /\ file = "open" => deferred /\ pc \in {"method", "serve", "return"}

\* C8 witness: a request ended methodNotAllowed after its file had been
\* opened, and the handle is closed.
C8_Witness ==
    /\ pc = "done"
    /\ result = resultMethodNotAllowed
    /\ Len(openCalls) = 1
    /\ file = "closed"

\* C9: whatever is passed to fileSystem.Open is not hidden under the request's
\* hide list and is no directory; a hidden file and a directory without a
\* usable index end notFound (404) with nothing opened.
C9_NeverOpensHiddenOrDirectory ==
    /\ \A i \in 1..Len(openCalls) :
           /\ ~fileHidden(openCalls[i], HideNow, CwdReadable)
           /\ Stat(openCalls[i]).err = ErrNil
           /\ ~Stat(openCalls[i]).isDir
           /\ ~info.isDir
    /\ (pc = "done" /\ ResolvesToFile
            /\ fileHidden(ReqFile, HideNow, CwdReadable)) =>
           /\ result = resultNotFound
           /\ status = StatusNotFound
           /\ openCalls = <<>>
    /\ (pc = "done" /\ ResolvesToDir /\ FirstUsable = 0) =>
           /\ result = resultNotFound
           /\ status = StatusNotFound
           /\ openCalls = <<>>

\* C9 witness: a request for an existing regular file that is hidden has ended
\* notFound without an open.
C9_Witness ==
    /\ pc = "done"
    /\ ResolvesToFile
    /\ fileHidden(ReqFile, HideNow, CwdReadable)
    /\ result = resultNotFound
    /\ openCalls = <<>>

----------------------------------------------------------------------------
(* Properties of the short-name guard *)

\* C7: on windows a request path without a colon is rejected illegalShortName
\* (400) exactly when, trailing dots and spaces trimmed, its final component
\* has at most 12 characters and that component holds a tilde; on any other
\* platform the guard rejects nothing.
C7_ShortNameInFinalComponent ==
    (pc \in {"sanitize", "return"} /\ ~Contains(p, ":")) =>
        LET base == Base(TrimRight(p, {".", " "}))
        IN  IF goos = "windows"
            THEN (result = resultIllegalShortName /\ status = StatusBadRequest)
                     <=> (Len(base) <= ShortNameMaxLen /\ Contains(base, "~"))
            ELSE result # resultIllegalShortName /\ pc = "sanitize"

----------------------------------------------------------------------------
(* Properties of fileHidden *)

\* C6: fileHidden matches at component boundaries only.  A pattern without a
\* separator hides a path exactly when it glob-matches one whole component of
\* the canonical path; a literal pattern h with a separator hides a path
\* exactly when the canonical path is h or begins with h and a separator.
C6_HiddenAtComponentBoundaries ==
    (fh.done /\ Len(fh.hide) = 1) =>
        LET h          == fh.hide[1]
            canonical  == Canonical(fh.fname, fh.cwdOk)
            components == Split(canonical, separator)
        IN  /\ ~Contains(h, separator) =>
                   (fh.hidden <=>
                        \E c \in 1..Len(components) : Match(h, components[c]))
            /\ (~Contains(h, separator) /\ ~Contains(h, "*")) =>
                   (fh.hidden <=>
                        \E c \in 1..Len(components) : components[c] = h)
            /\ (Contains(h, separator) /\ ~Contains(h, "*")) =>
                   (fh.hidden <=>
                        \/ canonical = h
                        \/ HasPrefix(canonical, h \o <<separator>>))

\* C6 witness: fileHidden has run on /ab under the pattern "/a" and has left
\* the file visible.
C6_Witness ==
    /\ fh.done
    /\ fh.hide = << <<"/", "a">> >>
    /\ fh.fname = <<"/", "a", "b">>
    /\ ~fh.hidden

----------------------------------------------------------------------------
(* Properties of calculateEtag *)

SameInfo(a, b) == a.modTime = b.modTime /\ a.size = b.size

\* C10 as stated: the ETags of two file infos are equal exactly when the
\* infos agree in modTime and in size.
C10_EtagInjective ==
    et.done => (SameInfo(et.old, et.new) <=> et.oldTag = et.newTag)

\* C10 as amended: equal modTime and size give equal ETags, and two file infos
\* that differ in exactly one of modTime and size give different ETags.
C10_EtagChangesWithEitherValue ==
    et.done =>
        /\ SameInfo(et.old, et.new) => et.oldTag = et.newTag
        /\ (et.old.modTime = et.new.modTime /\ et.old.size # et.new.size)
               => et.oldTag # et.newTag
        /\ (et.old.modTime # et.new.modTime /\ et.old.size = et.new.size)
               => et.oldTag # et.newTag

\* C10 witness: only the size changed, and the ETag changed with it.
C10_Witness ==
    /\ et.done
    /\ et.old.modTime = et.new.modTime
    /\ et.old.size # et.new.size
    /\ et.oldTag # et.newTag

====
